---- MODULE Spec2Model ----
(***************************************************************************)
(* Model of jenkins-tui: the JenkinsTree widget (widgets/tree_widget.py)   *)
(* and the JenkinsTUI application (app.py).                                *)
(*                                                                         *)
(* Strings that the code splits on "/" are modelled as the sequence of     *)
(* their "/"-separated segments: "http://h/job/team/" is                   *)
(* <<"http:", "", "h", "job", "team", "">>.  A string always has at least  *)
(* one segment; the empty string is <<"">>.                                *)
(*                                                                         *)
(* Scheduling.  The application and every widget are message pumps: a pump *)
(* takes one message from its queue, awaits the handler to its end, and    *)
(* only then takes the next.  emit() appends a message to the receiving    *)
(* pump's queue and call_later(f) appends a Callback message to the        *)
(* caller's own queue.  So handle_root_click, handle_job_click, set_home   *)
(* and set_job never interleave with one another: set_job's await of the   *)
(* detail fetch suspends the whole application pump, while the tree's pump *)
(* keeps running and keeps appending to the application's queue.           *)
(*                                                                         *)
(* Specifications.  Spec is the application with its tree, a click being   *)
(* handled as soon as it is made.  SpecTree spells out the tree's own      *)
(* queue and the awaits inside load_jobs.  SpecFetch adds a detail fetch   *)
(* that may fail.  SpecCache and SpecLabel are the tree with its label     *)
(* cache, rendered between mounts, refreshes and clicks.                   *)
(***************************************************************************)
EXTENDS Integers, Sequences, FiniteSets, TLC

\* ------------------------------------------------------------ bounds
MaxNav == 3        \* navigation messages the tree emits
MaxRefresh == 1    \* presses of "r"
MaxCalls == 4      \* calls of render_tree_label recorded in the history
maxsize == 2       \* lru_cache(maxsize=1024 * 32), scaled down
MaxPending == 2    \* TreeClick messages waiting in the tree's queue

\* ------------------------------------------------------------ strings
AllEmpty(segs) == \A i \in 1..Len(segs) : segs[i] = ""

FirstFull(segs) == CHOOSE i \in 1..Len(segs) :
                      segs[i] # "" /\ \A j \in 1..(i - 1) : segs[j] = ""

LastFull(segs) == CHOOSE i \in 1..Len(segs) :
                      segs[i] # "" /\ \A j \in (i + 1)..Len(segs) : segs[j] = ""

\* str.strip("/")
StripSlash(segs) ==
    IF AllEmpty(segs) THEN <<"">>
    ELSE SubSeq(segs, FirstFull(segs), LastFull(segs))

\* str.split("/job/"): the occurrences of "/job/" are the segments "job" that
\* are neither first nor last; they are taken left to right and two taken
\* occurrences never share a "/".
RECURSIVE SplitFrom(_, _, _, _)
SplitFrom(segs, i, cur, canSep) ==
    IF i > Len(segs) THEN <<cur>>
    ELSE IF segs[i] = "job" /\ canSep /\ i < Len(segs)
         THEN <<cur>> \o SplitFrom(segs, i + 1, <<>>, FALSE)
         ELSE SplitFrom(segs, i + 1, Append(cur, segs[i]), TRUE)

SplitJob(segs) == SplitFrom(segs, 1, <<>>, FALSE)

\* "/".join(parts)
RECURSIVE JoinSlash(_)
JoinSlash(parts) ==
    IF parts = <<>> THEN <<"">>
    ELSE IF Len(parts) = 1 THEN parts[1]
    ELSE parts[1] \o JoinSlash(Tail(parts))

\* Mutant of full_name: only the last part is kept ("/".join(parts[-1:])).
full_name_last(url) ==
    LET parts == SplitJob(StripSlash(url))
    IN JoinSlash(<<parts[Len(parts)]>>)

\* parts = entry["url"].strip("/").split("/job/"); full_name = "/".join(parts[1:])
full_name(url) == JoinSlash(Tail(SplitJob(StripSlash(url))))

\* ------------------------------------------------------------ the server
WorkflowJob == "org.jenkinsci.plugins.workflow.job.WorkflowJob"
Folder == "com.cloudbees.hudson.plugins.folder.Folder"
MultiBranch == "org.jenkinsci.plugins.workflow.multibranch.WorkflowMultiBranchProject"
FreeStyle == "hudson.model.FreeStyleProject"

\* self.type_map.get(entry["_class"], "")
type_map(class) ==
    CASE class = WorkflowJob -> "job"
      [] class = Folder -> "folder"
      [] class = MultiBranch -> "multibranch"
      [] OTHER -> ""

Host == <<"http:", "", "h">>
U(path) == Host \o path \o <<"">>

\* The client's url: the server itself, or a folder of it.
BaseHost == U(<<>>)
BaseTeam == U(<<"job", "team">>)
BaseOps == U(<<"job", "ops">>)
Bases == {BaseHost, BaseTeam, BaseOps}

\* Raw job descriptors: {_class, name, url, color?, jobs?}.
D_svc == [_class |-> WorkflowJob, name |-> "svc-a",
          url |-> U(<<"job", "team", "job", "svc-a">>), color |-> "blue"]
D_team == [_class |-> Folder, name |-> "team",
           url |-> U(<<"job", "team">>), jobs |-> <<D_svc>>]
D_x == [_class |-> WorkflowJob, name |-> "x",
        url |-> U(<<"job", "root", "job", "x">>), color |-> "red"]
D_rootFolder == [_class |-> Folder, name |-> "root",
                 url |-> U(<<"job", "root">>), jobs |-> <<D_x>>]
D_legacy == [_class |-> FreeStyle, name |-> "legacy",
             url |-> U(<<"job", "legacy">>)]
D_rootJob == [_class |-> WorkflowJob, name |-> "root",
              url |-> U(<<"job", "root">>), color |-> "blue"]
D_main == [_class |-> WorkflowJob, name |-> "main",
           url |-> U(<<"job", "mb", "job", "main">>)]
D_mb == [_class |-> MultiBranch, name |-> "mb",
         url |-> U(<<"job", "mb">>), jobs |-> <<D_main>>]

D_tools == [_class |-> Folder, name |-> "tools",
            url |-> U(<<"job", "ops", "job", "tools">>), jobs |-> <<>>]

\* What client.get_jobs(recursive=True) may return for a client url.
Snapshots(b) ==
    IF b = BaseTeam THEN {<<D_svc>>}
    ELSE IF b = BaseOps THEN {<<D_tools>>}
    ELSE {<<D_team, D_legacy, D_rootFolder>>, <<D_rootJob, D_mb>>, <<>>}

\* ------------------------------------------------------------ state
VARIABLES
    base,          \* the client's url
    inst,          \* the number of the JenkinsTree instance on screen
    nodes,         \* TreeControl.nodes of that instance: NodeID -> TreeNode
    tree_pc,       \* "mounting": on_mount awaits get_jobs; "mounted"; "failed"
    tree_queue,    \* the TreeClick messages waiting in the tree's queue
    loading,       \* the nodes on which a load_jobs call has begun and not ended
    fetches,       \* history: number of calls of client.get_jobs
    lastClick,     \* history: what the last handle_tree_click did
    current_node,  \* JenkinsTUI.current_node
    panel,         \* what self.container shows
    app_queue,     \* the application's message queue
    app_pc,        \* "idle", or the set_job message whose fetch is awaited
    emits,         \* history: number of messages the trees have emitted
    log,           \* history: the application pump's steps, in order
    cache,         \* render_tree_label's lru_cache: its keys, oldest use first
    cached,        \* the lru_cache's values: the label stored under each key
    calls,         \* history: the keys render_tree_label was called with
    lastRender     \* history: what the last render_node returned

treeVars == <<inst, nodes, tree_pc, lastClick, tree_queue, loading, fetches>>
appVars == <<current_node, panel, app_queue, app_pc, log>>
cacheVars == <<cache, cached, calls, lastRender>>
vars == <<base, inst, nodes, tree_pc, lastClick, tree_queue, loading, fetches,
          current_node, panel, app_queue, app_pc, emits, log,
          cache, cached, calls, lastRender>>

ROOT == <<"root">>

\* JobEntry(name="root", url="", color="", type="root", jobs=[]) in a new
\* TreeNode labelled "pipelines": loaded = False, expanded = False, no
\* children.  nloads is history: how many times load_jobs ran on the node.
RootNode ==
    [name |-> ROOT, url |-> <<"">>, color |-> "", type |-> "root",
     jobs |-> <<>>, parent |-> 0, loaded |-> FALSE, expanded |-> FALSE,
     children |-> <<>>, nloads |-> 0, label |-> "pipelines"]

\* The calls of client.get_jobs that a load_jobs of the node makes.
FetchCount(node) == IF node.type = "root" THEN 1 ELSE 0

HomePanel == [view |-> "home", url |-> <<"">>]
NoClick == [node |-> 0, branch |-> "none", did |-> "none"]
NoRender == [key |-> "none"]

Init ==
    /\ base \in Bases
    /\ inst = 0
    /\ nodes = <<RootNode>>
    /\ tree_pc = "mounting"
    /\ tree_queue = <<>>
    /\ loading = <<1>>
    /\ fetches = FetchCount(RootNode)
    /\ lastClick = NoClick
    /\ current_node = ROOT
    /\ panel = HomePanel
    /\ app_queue = <<>>
    /\ app_pc = "idle"
    /\ emits = 0
    /\ log = <<>>
    /\ cache = <<>>
    /\ cached = {}
    /\ calls = <<>>
    /\ lastRender = NoRender

\* ------------------------------------------------------------ the tree
\* Mutant of ColorOf: the default is the empty string.
ColorOf_blank(entry) == IF "color" \in DOMAIN entry THEN entry.color ELSE ""

\* entry.get("color", "none")
ColorOf(entry) == IF "color" \in DOMAIN entry THEN entry.color ELSE "none"

\* entry.get("jobs", [])
JobsOf(entry) == IF "jobs" \in DOMAIN entry THEN entry.jobs ELSE <<>>

\* clean_name = unquote(entry["name"]); chicken mode is off (its default).
\* The names of the descriptors hold no "%", so unquote returns them as they
\* are.
clean_name(entry) == entry.name

\* job = JobEntry(name=full_name, url=..., color=..., type=typeof, jobs=...)
\* in the TreeNode that node.add(clean_name, job) creates under parent p.
NewNode(entry, p) ==
    [name |-> full_name(entry.url), url |-> entry.url, color |-> ColorOf(entry),
     type |-> type_map(entry._class), jobs |-> JobsOf(entry), parent |-> p,
     loaded |-> FALSE, expanded |-> FALSE, children |-> <<>>, nloads |-> 0,
     label |-> clean_name(entry)]

\* for entry in jobs: ... await node.add(clean_name, job)
RECURSIVE AddAll(_, _, _)
AddAll(ns, n, jobs) ==
    IF jobs = <<>> THEN ns
    ELSE LET id == Len(ns) + 1
             grown == Append(ns, NewNode(Head(jobs), n))
         IN AddAll([grown EXCEPT ![n].children = Append(@, id)], n, Tail(jobs))

\* load_jobs once the list of jobs is known: add the children, then
\* node.loaded = True and node.expand().
load_jobs(ns, n, jobs) ==
    [AddAll(ns, n, jobs) EXCEPT ![n].loaded = TRUE, ![n].expanded = TRUE,
                                ![n].nloads = @ + 1]

\* Mutant of JobsFor: every load asks the server.
JobsFor_server(node) == Snapshots(base)

\* if node.data.type == "root": jobs = await self.client.get_jobs(recursive=True)
\* else: jobs = node.data.jobs
JobsFor(node) == IF node.type = "root" THEN Snapshots(base) ELSE {node.jobs}

\* Mutant of load_jobs_failed: the failed load still marks the node loaded and
\* expands it (as a finally clause would).
load_jobs_failed_marked(ns, n) ==
    [ns EXCEPT ![n].loaded = TRUE, ![n].expanded = TRUE]

\* load_jobs when get_jobs raises: the exception leaves load_jobs at the
\* await, before anything is assigned.
load_jobs_failed(ns, n) == ns

\* on_mount, get_jobs returns
MountDone ==
    /\ tree_pc = "mounting"
    /\ \E jobs \in JobsFor(nodes[1]) : nodes' = load_jobs(nodes, 1, jobs)
    /\ tree_pc' = "mounted"
    /\ loading' = <<>>
    /\ UNCHANGED <<base, inst, lastClick, emits, tree_queue, fetches>>
    /\ UNCHANGED appVars /\ UNCHANGED cacheVars

\* on_mount, get_jobs raises
MountFail ==
    /\ tree_pc = "mounting"
    /\ nodes' = load_jobs_failed(nodes, 1)
    /\ tree_pc' = "failed"
    /\ loading' = <<>>
    /\ UNCHANGED <<base, inst, lastClick, emits, tree_queue, fetches>>
    /\ UNCHANGED appVars /\ UNCHANGED cacheVars

\* A node is on screen when every ancestor is expanded.
RECURSIVE Visible(_, _)
Visible(ns, n) ==
    IF n = 1 THEN TRUE
    ELSE ns[ns[n].parent].expanded /\ Visible(ns, ns[n].parent)

\* Mutant of ClickBranch: the else branch loads without looking at loaded.
ClickBranch_reload(node) ==
    IF node.type = "job" THEN "JobClick"
    ELSE IF node.name = ROOT THEN "RootClick"
    ELSE "load"

\* Mutant of ClickBranch: a click on a job or on the root also toggles it.
ClickBranch_toggle_all(node) ==
    IF ~node.loaded /\ node.type \notin {"job", "root"} THEN "load"
    ELSE "toggle"

\* The branch handle_tree_click takes for a node.
ClickBranch(node) ==
    IF node.type = "job" THEN "JobClick"
    ELSE IF node.name = ROOT THEN "RootClick"
    ELSE IF ~node.loaded THEN "load"
    ELSE "toggle"

Msg(kind, name, url, tag) ==
    [kind |-> kind, node_name |-> name, url |-> url, tag |-> tag]

\* action_click_label and handle_tree_click for node n, when the tree's pump
\* is free: the TreeClick message is handled as soon as it is posted, and the
\* pump runs handle_tree_click to its end.
HandleTreeClick(n) ==
    LET node == nodes[n]
        br == ClickBranch(node)
    IN /\ tree_pc # "mounting" /\ loading = <<>> /\ tree_queue = <<>>
       /\ Visible(nodes, n)
       /\ br \in {"JobClick", "RootClick"} => emits < MaxNav
       /\ CASE br = "JobClick" ->
                 /\ app_queue' = Append(app_queue,
                        Msg("JobClick", node.name, node.url, emits + 1))
                 /\ emits' = emits + 1
                 /\ nodes' = nodes
            [] br = "RootClick" ->
                 /\ app_queue' = Append(app_queue,
                        Msg("RootClick", ROOT, <<"">>, emits + 1))
                 /\ emits' = emits + 1
                 /\ nodes' = nodes
            [] br = "load" ->
                 /\ \E jobs \in JobsFor(node) :
                       nodes' = [load_jobs(nodes, n, jobs)
                                    EXCEPT ![n].expanded = TRUE]
                 /\ UNCHANGED <<app_queue, emits>>
            [] br = "toggle" ->
                 /\ nodes' = [nodes EXCEPT ![n].expanded = ~@]
                 /\ UNCHANGED <<app_queue, emits>>
       /\ fetches' = IF br = "load" THEN fetches + FetchCount(node) ELSE fetches
       /\ lastClick' = [node |-> n, branch |-> br,
                        did |-> IF br \in {"load", "toggle"} THEN br ELSE "emit"]
       /\ UNCHANGED <<base, inst, tree_pc, tree_queue, loading>>
       /\ UNCHANGED <<current_node, panel, app_pc, log>>
       /\ UNCHANGED cacheVars

TreeClick == \E n \in 1..Len(nodes) : HandleTreeClick(n)

\* The clicks of a user who only opens and closes what is below the root.
BranchClick == \E n \in 2..Len(nodes) : HandleTreeClick(n)

\* ------------------------------------------------------------ the tree's pump
\* The same handler with the tree's queue and the awaits of load_jobs spelled
\* out: clicks are posted at any time, also while a handler is suspended.

\* action_click_label: the TreeClick message for node n joins the tree's queue.
PostTreeClick(n) ==
    /\ Visible(nodes, n)
    /\ Len(tree_queue) < MaxPending
    /\ tree_queue' = Append(tree_queue, n)
    /\ UNCHANGED <<base, inst, nodes, tree_pc, lastClick, loading, fetches, emits>>
    /\ UNCHANGED appVars /\ UNCHANGED cacheVars

ClickLabel == \E n \in 1..Len(nodes) : PostTreeClick(n)

\* Mutant of PumpFree: the pump starts a handler while another is suspended.
PumpFree_reentrant == TRUE

\* The tree's pump takes its next message when the handler before it has
\* ended: on_mount and handle_tree_click are awaited to their ends.
PumpFree == loading = <<>>

\* handle_tree_click for the message at the head of the tree's queue, as far
\* as its first await inside load_jobs (node.add); node.loaded is still False
\* there.
DispatchTreeClick ==
    /\ PumpFree /\ tree_queue # <<>>
    /\ LET n == Head(tree_queue)
           node == nodes[n]
           br == ClickBranch(node)
       IN /\ br \in {"JobClick", "RootClick"} => emits < MaxNav
          /\ CASE br = "JobClick" ->
                    /\ app_queue' = Append(app_queue,
                           Msg("JobClick", node.name, node.url, emits + 1))
                    /\ emits' = emits + 1
                    /\ UNCHANGED <<nodes, loading>>
               [] br = "RootClick" ->
                    /\ app_queue' = Append(app_queue,
                           Msg("RootClick", ROOT, <<"">>, emits + 1))
                    /\ emits' = emits + 1
                    /\ UNCHANGED <<nodes, loading>>
               [] br = "load" ->
                    /\ loading' = Append(loading, n)
                    /\ UNCHANGED <<nodes, app_queue, emits>>
               [] br = "toggle" ->
                    /\ nodes' = [nodes EXCEPT ![n].expanded = ~@]
                    /\ UNCHANGED <<loading, app_queue, emits>>
          /\ fetches' = IF br = "load" THEN fetches + FetchCount(node) ELSE fetches
          /\ lastClick' = [node |-> n, branch |-> br,
                           did |-> IF br \in {"load", "toggle"} THEN br ELSE "emit"]
    /\ tree_queue' = Tail(tree_queue)
    /\ UNCHANGED <<base, inst, tree_pc, current_node, panel, app_pc, log>>
    /\ UNCHANGED cacheVars

\* The rest of a load_jobs that handle_tree_click began, and the
\* message.node.expand() after it.
LoadJobsEnd ==
    /\ \E i \in 1..Len(loading) :
          LET n == loading[i] IN
          /\ n # 1
          /\ \E jobs \in JobsFor(nodes[n]) :
                nodes' = [load_jobs(nodes, n, jobs) EXCEPT ![n].expanded = TRUE]
          /\ loading' = SubSeq(loading, 1, i - 1)
                            \o SubSeq(loading, i + 1, Len(loading))
    /\ UNCHANGED <<base, inst, tree_pc, lastClick, tree_queue, fetches, emits>>
    /\ UNCHANGED appVars /\ UNCHANGED cacheVars

\* ------------------------------------------------------------ the application
\* Mutant of RootGuard: the home panel is scheduled on every RootClick.
RootGuard_always(cur) == TRUE

\* if self.current_node != "root":
RootGuard(cur) == cur # ROOT

\* Mutant of JobGuard: set_job is scheduled on every JobClick.
JobGuard_always(m, cur) == TRUE

\* if message.node_name != self.current_node:
JobGuard(m, cur) == m.node_name # cur

\* Mutant of set_job_panel: set_job never swaps the panel.
set_job_panel_kept(m) == panel

\* await self.container.update(info, builds): the job's info and build table
set_job_panel(m) == [view |-> "job", url |-> m.url]

\* await self.container.update(self.info, self.build_queue, self.executor_status)
set_home_panel == HomePanel

\* An entry of the history log: ev is "on" (a click handler that changed
\* current_node), "skip" (a click handler that did nothing), "run" (set_job
\* reached its await), "done" (a callback swapped the panel) or "fail"
\* (set_job ended in its fetch's exception); panel is what the container
\* showed when the step began.
Ev(ev, m) == [ev |-> ev, kind |-> m.kind, node_name |-> m.node_name,
              url |-> m.url, tag |-> m.tag, panel |-> panel]

\* handle_root_click
HandleRootClick ==
    /\ app_pc = "idle" /\ app_queue # <<>>
    /\ Head(app_queue).kind = "RootClick"
    /\ LET m == Head(app_queue) IN
         IF RootGuard(current_node)
         THEN /\ current_node' = ROOT
              /\ app_queue' = Append(Tail(app_queue),
                                     Msg("set_home", ROOT, <<"">>, m.tag))
              /\ log' = Append(log, Ev("on", m))
         ELSE /\ current_node' = current_node
              /\ app_queue' = Tail(app_queue)
              /\ log' = Append(log, Ev("skip", m))
    /\ UNCHANGED <<base, panel, app_pc, emits>>
    /\ UNCHANGED treeVars /\ UNCHANGED cacheVars

\* handle_job_click
HandleJobClick ==
    /\ app_pc = "idle" /\ app_queue # <<>>
    /\ Head(app_queue).kind = "JobClick"
    /\ LET m == Head(app_queue) IN
         IF JobGuard(m, current_node)
         THEN /\ current_node' = m.node_name
              /\ app_queue' = Append(Tail(app_queue),
                                     Msg("set_job", m.node_name, m.url, m.tag))
              /\ log' = Append(log, Ev("on", m))
         ELSE /\ current_node' = current_node
              /\ app_queue' = Tail(app_queue)
              /\ log' = Append(log, Ev("skip", m))
    /\ UNCHANGED <<base, panel, app_pc, emits>>
    /\ UNCHANGED treeVars /\ UNCHANGED cacheVars

\* the Callback of call_later(set_home)
SetHome ==
    /\ app_pc = "idle" /\ app_queue # <<>>
    /\ Head(app_queue).kind = "set_home"
    /\ panel' = set_home_panel
    /\ app_queue' = Tail(app_queue)
    /\ log' = Append(log, Ev("done", Head(app_queue)))
    /\ UNCHANGED <<base, current_node, app_pc, emits>>
    /\ UNCHANGED treeVars /\ UNCHANGED cacheVars

\* the Callback of call_later(set_job), up to the await of get_info_for_job;
\* the message stays at the head of the queue while the pump awaits.
SetJobStart ==
    /\ app_pc = "idle" /\ app_queue # <<>>
    /\ Head(app_queue).kind = "set_job"
    /\ app_pc' = "set_job"
    /\ log' = Append(log, Ev("run", Head(app_queue)))
    /\ UNCHANGED <<base, current_node, panel, app_queue, emits>>
    /\ UNCHANGED treeVars /\ UNCHANGED cacheVars

\* set_job after get_info_for_job has returned
DetailFetchDone ==
    /\ app_pc = "set_job"
    /\ panel' = set_job_panel(Head(app_queue))
    /\ app_queue' = Tail(app_queue)
    /\ app_pc' = "idle"
    /\ log' = Append(log, Ev("done", Head(app_queue)))
    /\ UNCHANGED <<base, current_node, emits>>
    /\ UNCHANGED treeVars /\ UNCHANGED cacheVars

\* Mutant of set_job_failed_panel: the failed set_job leaves the home panel.
set_job_failed_panel_home(p) == HomePanel

\* set_job when get_info_for_job raises: the exception leaves set_job at its
\* await, before container.update; the container keeps what it shows.
set_job_failed_panel(p) == p

\* Mutant of set_job_failed_current_node: the failed set_job takes the
\* selection back.
set_job_failed_current_node_reset(cur) == ROOT

\* set_job assigns current_node nowhere: the value handle_job_click assigned
\* before the fetch stays.
set_job_failed_current_node(cur) == cur

\* set_job, get_info_for_job raises.  The exception reaches the pump that
\* called the callback; whether that pump then takes its next message
\* ("idle") or ends ("stopped") is the framework's choice, so both happen.
DetailFetchFail ==
    /\ app_pc = "set_job"
    /\ panel' = set_job_failed_panel(panel)
    /\ current_node' = set_job_failed_current_node(current_node)
    /\ app_queue' = Tail(app_queue)
    /\ app_pc' \in {"idle", "stopped"}
    /\ log' = Append(log, Ev("fail", Head(app_queue)))
    /\ UNCHANGED <<base, emits>>
    /\ UNCHANGED treeVars /\ UNCHANGED cacheVars

\* Mutant of refresh_current_node: a refresh goes back to the root selection.
refresh_current_node_reset(cur) == ROOT

\* action_refresh_tree assigns neither current_node nor the container.
refresh_current_node(cur) == cur

\* action_refresh_tree: a new JenkinsTree replaces the one on screen and is
\* mounted.
Refresh ==
    /\ app_pc = "idle"
    /\ inst < MaxRefresh
    /\ inst' = inst + 1
    /\ nodes' = <<RootNode>>
    /\ tree_pc' = "mounting"
    /\ tree_queue' = <<>>
    /\ loading' = <<1>>
    /\ fetches' = fetches + FetchCount(RootNode)
    /\ lastClick' = NoClick
    /\ current_node' = refresh_current_node(current_node)
    /\ UNCHANGED <<base, emits, panel, app_queue, app_pc, log>>
    /\ UNCHANGED cacheVars

\* ------------------------------------------------------------ the label cache
Range(q) == {q[i] : i \in 1..Len(q)}

Without(q, x) == SelectSeq(q, LAMBDA y : y # x)

\* Mutant of lru_call: a hit does not renew the entry (first in, first out).
lru_call_fifo(c, key) ==
    IF key \in Range(c) THEN c
    ELSE IF Len(c) >= maxsize THEN Append(Tail(c), key)
    ELSE Append(c, key)

\* @lru_cache(maxsize=...): a hit moves the key to the newest end; a miss adds
\* the key there, after dropping the oldest key when the cache is full.
lru_call(c, key) ==
    IF key \in Range(c) THEN Append(Without(c, key), key)
    ELSE IF Len(c) >= maxsize THEN Append(Tail(c), key)
    ELSE Append(c, key)

\* The (is_cursor, is_hover, has_focus) combinations rendered.
RenderFlags == {<<FALSE, FALSE, FALSE>>, <<TRUE, FALSE, TRUE>>}

\* Mutant of render_key: expanded is not among the arguments.
render_key_unexpanded(n, f) ==
    [self |-> inst, node |-> n, type |-> nodes[n].type,
     expanded |-> FALSE,
     is_cursor |-> f[1], is_hover |-> f[2], has_focus |-> f[3]]

\* render_node: the arguments render_tree_label is called with, self included.
render_key(n, f) ==
    [self |-> inst, node |-> n, type |-> nodes[n].type,
     expanded |-> nodes[n].expanded,
     is_cursor |-> f[1], is_hover |-> f[2], has_focus |-> f[3]]

\* self.color_map.get(node.data.color, "?"), the icons by their names
color_map(color) ==
    CASE color = "aborted" -> "cross"
      [] color = "blue" -> "blue circle"
      [] color = "blue_anime" -> "arrows"
      [] color = "disabled" -> "hollow circle"
      [] color = "grey" -> "white circle"
      [] color = "notbuilt" -> "hourglass"
      [] color = "red_anime" -> "arrows"
      [] color = "red" -> "red circle"
      [] color = "yellow" -> "yellow circle"
      [] color = "none" -> "purple circle"
      [] OTHER -> "?"

\* The body of render_tree_label for the node with id n of the tree ns: the
\* label's text, the styles laid on it, its icon and its meta.
render_tree_label(ns, n, type, expanded, is_cursor, is_hover, has_focus) ==
    [text |-> ns[n].label,
     node_on_hover |-> is_hover,
     tree_on_cursor |-> is_cursor /\ has_focus,
     style |-> CASE type = "root" -> "root_node"
                 [] type = "folder" -> "folder"
                 [] type = "multibranch" -> "multibranch_node"
                 [] OTHER -> "node",
     icon |-> CASE type = "root" -> "open folder"
                [] type = "folder" ->
                      IF expanded THEN "open folder" ELSE "closed folder"
                [] type = "multibranch" -> "seedling"
                [] OTHER -> color_map(ns[n].color),
     tree_node |-> n,
     cursor |-> is_cursor]

\* What render_node computes for node n when nothing is cached.
Uncached(n, f) ==
    render_tree_label(nodes, n, nodes[n].type, nodes[n].expanded,
                      f[1], f[2], f[3])

\* The label stored under a key of the cache.
Stored(key) == (CHOOSE e \in cached : e.key = key).label

\* render_node(node) for a node on screen: a hit returns the stored label, a
\* miss runs the body and stores what it returns.
Render ==
    /\ Len(calls) < MaxCalls
    /\ \E n \in 1..Len(nodes) : \E f \in RenderFlags :
          LET key == render_key(n, f)
              hit == key \in Range(cache)
              label == IF hit THEN Stored(key) ELSE Uncached(n, f)
          IN /\ Visible(nodes, n)
             /\ cache' = lru_call(cache, key)
             /\ cached' = {e \in cached \cup {[key |-> key, label |-> label]} :
                               e.key \in Range(lru_call(cache, key))}
             /\ calls' = Append(calls, key)
             /\ lastRender' = [key |-> key, label |-> label, hit |-> hit,
                               fresh |-> Uncached(n, f)]
    /\ UNCHANGED <<base, emits>>
    /\ UNCHANGED treeVars /\ UNCHANGED appVars

Next ==
    \/ MountDone
    \/ MountFail
    \/ TreeClick
    \/ HandleRootClick
    \/ HandleJobClick
    \/ SetHome
    \/ SetJobStart
    \/ DetailFetchDone
    \/ Refresh

Spec == Init /\ [][Next]_vars

\* The tree of a client of ".../job/team/", rendered, mounted and refreshed.
InitCache == Init /\ base = BaseTeam

NextCache ==
    \/ MountDone
    \/ MountFail
    \/ Refresh
    \/ Render

SpecCache == InitCache /\ [][NextCache]_vars

\* The tree of a client of ".../job/ops/", its folder opened and closed,
\* rendered and refreshed.
InitLabel == Init /\ base = BaseOps

NextLabel ==
    \/ MountDone
    \/ MountFail
    \/ BranchClick
    \/ Refresh
    \/ Render

SpecLabel == InitLabel /\ [][NextLabel]_vars

\* The application on one tree instance, with a data source whose detail
\* fetch may fail.
NextFetch ==
    \/ MountDone
    \/ MountFail
    \/ TreeClick
    \/ HandleRootClick
    \/ HandleJobClick
    \/ SetHome
    \/ SetJobStart
    \/ DetailFetchDone
    \/ DetailFetchFail

SpecFetch == Init /\ [][NextFetch]_vars

\* The tree of a client of the server itself, with its pump spelled out.
InitTree == Init /\ base = BaseHost

NextTree ==
    \/ MountDone
    \/ MountFail
    \/ ClickLabel
    \/ DispatchTreeClick
    \/ LoadJobsEnd

SpecTree == InitTree /\ [][NextTree]_vars

\* ------------------------------------------------------------ history helpers
Handled(i) == log[i].ev \in {"on", "skip"}
Accepted(i) == log[i].ev = "on"
DoneAt(t) == {k \in 1..Len(log) : log[k].ev = "done" /\ log[k].tag = t}
Quiescent == app_queue = <<>> /\ app_pc = "idle"

\* Positions i < j of two accepted job selections of distinct jobs, the second
\* handled before the first one's fetch completed and with no accepted
\* navigation between them or after them.
RapidPair(i, j) ==
    /\ i < j /\ Accepted(i) /\ Accepted(j)
    /\ log[i].kind = "JobClick" /\ log[j].kind = "JobClick"
    /\ log[i].url # log[j].url
    /\ \A k \in 1..Len(log) : (k > i /\ k # j) => ~Accepted(k)
    /\ \A k \in DoneAt(log[i].tag) : k > j

BothResolved(i, j) == DoneAt(log[i].tag) # {} /\ DoneAt(log[j].tag) # {}

\* ------------------------------------------------------------ claims
\* C1 (stale-result discard): when JobSelected{A} and then JobSelected{B}, for
\* distinct jobs, are both handled before A's detail fetch completes and no
\* later selection follows, then once both fetches have resolved the panel
\* shows B's job detail (and keeps showing it: the property is an invariant).
C1_PanelIsSecondJob ==
    \A i, j \in 1..Len(log) :
        (RapidPair(i, j) /\ BothResolved(i, j))
            => panel = [view |-> "job", url |-> log[j].url]

\* C1 witness: such a pair of selections has been made and both fetches have
\* resolved.
C1_Witness ==
    \E i, j \in 1..Len(log) : RapidPair(i, j) /\ BothResolved(i, j)

\* C2 as claimed (load-once): a load call on a node that is already loaded
\* changes nothing, and in particular leaves the node's child list as it was.
C2_LoadOfLoadedIsNoop ==
    \A n \in 1..Len(nodes) :
        nodes[n].loaded =>
            \A jobs \in JobsFor(nodes[n]) :
                LET after == load_jobs(nodes, n, jobs)
                IN /\ Len(after) = Len(nodes)
                   /\ after[n].children = nodes[n].children
                   /\ after[n].expanded = nodes[n].expanded

\* C2 as amended: over any sequence of clicks every node of a tree instance is
\* loaded at most once (handle_tree_click sends a loaded node to toggle), so a
\* loaded node has one child per descriptor and no descriptor appears twice.
C2_LoadedAtMostOnce ==
    \A n \in 1..Len(nodes) :
        LET ch == nodes[n].children IN
        /\ nodes[n].nloads <= 1
        /\ nodes[n].loaded <=> nodes[n].nloads = 1
        /\ \A i, j \in 1..Len(ch) : i # j => nodes[ch[i]].url # nodes[ch[j]].url
        /\ (nodes[n].loaded /\ nodes[n].type # "root")
              => Len(ch) = Len(nodes[n].jobs)
        /\ ~nodes[n].loaded => ch = <<>>

\* C2 witness: a loaded node that has children was clicked again.
C2_Witness ==
    /\ lastClick.branch = "toggle"
    /\ nodes[lastClick.node].children # <<>>

\* C3 (failure rollback): once get_jobs has failed during the root's load, the
\* root is not loaded, not expanded and has no children.
C3_FailedLoadLeavesRootUnloaded ==
    tree_pc = "failed" =>
        /\ ~nodes[1].loaded
        /\ ~nodes[1].expanded
        /\ nodes[1].children = <<>>
        /\ Len(nodes) = 1

\* C3 witness: the root's load has failed.
C3_Witness == tree_pc = "failed" /\ nodes[1].nloads = 0

\* C5 (idempotent root re-selection): current_node is "root" after every
\* handle_root_click; one that finds current_node already "root" schedules no
\* swap and changes nothing; so of two consecutive ones the second does nothing.
C5_RootReselectionIdempotent ==
    /\ [][(Len(log') = Len(log) + 1 /\ log'[Len(log')].kind = "RootClick")
            => /\ current_node' = ROOT
               /\ current_node = ROOT
                    => /\ panel' = panel /\ app_pc' = app_pc
                       /\ app_queue' = Tail(app_queue)
                       /\ log'[Len(log')].ev = "skip"]_vars
    /\ [](\A i, j \in 1..Len(log) :
            (/\ i < j /\ Handled(i) /\ Handled(j)
             /\ log[i].kind = "RootClick" /\ log[j].kind = "RootClick"
             /\ \A k \in (i + 1)..(j - 1) : ~Handled(k))
                => log[j].ev = "skip")

\* C5 witness: two consecutive RootClick messages were handled, the first
\* changing current_node and the second not.
C5_Witness ==
    \E i, j \in 1..Len(log) :
        /\ i < j /\ log[i].ev = "on" /\ log[j].ev = "skip"
        /\ log[i].kind = "RootClick" /\ log[j].kind = "RootClick"
        /\ \A k \in (i + 1)..(j - 1) : ~Handled(k)

\* The segments of a well-formed job url that follow its "job" markers.
JobPathSegments(url) ==
    LET s == StripSlash(url)
        k == CHOOSE i \in 1..Len(s) : s[i] = "job" /\ \A j \in 1..(i - 1) : s[j] # "job"
    IN [j \in 1..((Len(s) - k + 1) \div 2) |-> s[k + 2 * j - 1]]

\* The name the claim gives: the url's segments after the client's url, without
\* the "job" markers.
ClaimedName(url, b) ==
    LET s == StripSlash(url)
        p == StripSlash(b)
        rest == SubSeq(s, Len(p) + 1, Len(s))
    IN [j \in 1..(Len(rest) \div 2) |-> rest[2 * j]]

\* C6 as claimed (name derivation): a child's name is its url's job path with
\* the segments of the server's base removed; ".../job/team/job/svc-a/" under
\* the base ".../job/team/" is named "svc-a".
C6_NameStripsServerBase ==
    \A n \in 2..Len(nodes) : nodes[n].name = ClaimedName(nodes[n].url, base)

\* C6 as amended: a child's name is every job-path segment of its url after the
\* first "/job/", whatever the server's base: ".../job/team/job/svc-a/" is
\* named "team/svc-a", also under the base ".../job/team/".
C6_NameKeepsWholeJobPath ==
    \A n \in 2..Len(nodes) :
        /\ nodes[n].name = JobPathSegments(nodes[n].url)
        /\ nodes[n].url = U(<<"job", "team", "job", "svc-a">>)
              => nodes[n].name = <<"team", "svc-a">>

\* C6 witness: the tree of a client whose url is ".../job/team/" holds the
\* node of ".../job/team/job/svc-a/".
C6_Witness ==
    /\ base = BaseTeam
    /\ \E n \in 2..Len(nodes) : nodes[n].url = U(<<"job", "team", "job", "svc-a">>)

\* C7 (defaulting never aborts a load): every loaded node has one child per
\* descriptor, in order; a descriptor without color gives color "none", one
\* whose _class is not in type_map gives type ""; a load ends with the node
\* loaded and expanded.
C7_DefaultsNeverAbortLoad ==
    /\ \A n \in 1..Len(nodes) :
          nodes[n].loaded =>
             \E seed \in JobsFor(nodes[n]) :
                /\ Len(nodes[n].children) = Len(seed)
                /\ \A i \in 1..Len(seed) :
                      LET c == nodes[nodes[n].children[i]] IN
                      /\ c.url = seed[i].url
                      /\ "color" \notin DOMAIN seed[i] => c.color = "none"
                      /\ "color" \in DOMAIN seed[i] => c.color = seed[i].color
                      /\ seed[i]._class \notin {WorkflowJob, Folder, MultiBranch}
                            => c.type = ""
    /\ lastClick.branch = "load"
          => nodes[lastClick.node].loaded /\ nodes[lastClick.node].expanded
    /\ tree_pc = "mounted" => nodes[1].loaded /\ nodes[1].expanded

\* C7 witness: a loaded node has a child of unknown _class and without color,
\* followed by another child.
C7_Witness ==
    \E n \in 1..Len(nodes) : \E i \in 1..Len(nodes[n].children) :
        /\ nodes[n].loaded /\ nodes[n].expanded
        /\ nodes[nodes[n].children[i]].type = ""
        /\ nodes[nodes[n].children[i]].color = "none"
        /\ i < Len(nodes[n].children)

\* C8 as claimed (click dispatch is by kind): RootClick is emitted only for the
\* node of type root, JobClick only for nodes of type job, and a click on a
\* folder or multibranch node emits nothing and loads or toggles the node.
C8_DispatchByKind ==
    lastClick.node # 0 =>
        LET node == nodes[lastClick.node] IN
        /\ lastClick.branch = "RootClick" => node.type = "root"
        /\ lastClick.branch = "JobClick" => node.type = "job"
        /\ node.type \in {"folder", "multibranch"}
              => lastClick.did \in {"load", "toggle"}

\* The panel the claim expects for a selection.
PanelFollows(cur, p) ==
    IF cur = ROOT THEN p = HomePanel
    ELSE p.view = "job" /\ full_name(p.url) = cur

\* C9 as claimed (panel follows the latest intent): once every message is
\* handled and every fetch has completed, the panel is the composition for
\* current_node: home when it is "root", that job's detail otherwise.
C9_PanelFollowsSelection == Quiescent => PanelFollows(current_node, panel)

\* C10 (refresh frame): a refresh leaves current_node and the panel as they
\* were and puts a new tree on screen, its root unloaded and without children
\* and its mount under way; a mounted tree's root is loaded.
C10_RefreshFrame ==
    /\ [][inst' # inst
            => /\ current_node' = current_node
               /\ panel' = panel
               /\ Len(nodes') = 1 /\ nodes'[1].type = "root"
               /\ ~nodes'[1].loaded /\ nodes'[1].children = <<>>
               /\ tree_pc' = "mounting"]_vars
    /\ [](tree_pc = "mounted" => nodes[1].loaded /\ nodes[1].nloads = 1)

\* C10 witness: the tree was refreshed while a job selection was under way: the
\* new tree is still mounting, a set_job callback waits in the queue and the
\* panel shows another job.
C10_Witness ==
    /\ inst > 0 /\ tree_pc = "mounting"
    /\ app_queue # <<>> /\ Head(app_queue).kind = "set_job"
    /\ panel.view = "job" /\ panel.url # Head(app_queue).url

\* The last position of key k in the history of calls.
LastUse(k) == CHOOSE i \in 1..Len(calls) :
                 calls[i] = k /\ \A j \in (i + 1)..Len(calls) : calls[j] # k

\* The keys used more recently than all but fewer than maxsize other keys.
MostRecent ==
    {k \in Range(calls) :
        Cardinality({o \in Range(calls) : LastUse(o) > LastUse(k)}) < maxsize}

\* C4 (cache bound): the label cache never holds more than maxsize keys; once
\* more than maxsize distinct keys were used it holds exactly maxsize; and its
\* keys are always the most recently used ones, across tree instances.
C4_CacheHoldsMostRecent ==
    /\ Len(cache) <= maxsize
    /\ Cardinality(Range(cache)) = Len(cache)
    /\ Cardinality(Range(calls)) > maxsize => Len(cache) = maxsize
    /\ Range(cache) = MostRecent

\* C4 witness: more than maxsize distinct keys were used, from two tree
\* instances, one key was hit while cached, and one key was evicted.
C4_Witness ==
    /\ Cardinality(Range(calls)) > maxsize
    /\ \E i, j \in 1..Len(calls) : calls[i].self # calls[j].self
    /\ \E i \in 2..Len(calls) : calls[i] = calls[i - 1]

\* The number of load_jobs calls in progress on node n.
InProgress(n) == Cardinality({i \in 1..Len(loading) : loading[i] = n})

\* C11 as claimed (no overlapping loads): at most one load is in progress for
\* any node, the node's load-state having left unloaded before the load's
\* suspension point.
C11_LoadingLeavesUnloaded ==
    \A n \in 1..Len(nodes) :
        /\ InProgress(n) <= 1
        /\ InProgress(n) = 1 => nodes[n].loaded

\* C11 as amended: at most one load is in progress for any node, and no node
\* is loaded twice, although the node stays unloaded during the load: the
\* click that arrives during the await waits in the tree's queue until the
\* handler before it has ended.
C11_OneLoadAtATime ==
    \A n \in 1..Len(nodes) :
        /\ InProgress(n) <= 1
        /\ InProgress(n) = 1 => ~nodes[n].loaded /\ nodes[n].children = <<>>
        /\ nodes[n].nloads <= 1
        /\ nodes[n].loaded => Len(nodes[n].children) \in
               {Len(jobs) : jobs \in JobsFor(nodes[n])}

\* C11 witness: a folder's load is in progress and a click on that folder has
\* arrived and waits in the tree's queue.
C11_Witness ==
    /\ loading # <<>> /\ loading[1] # 1
    /\ tree_queue # <<>> /\ Head(tree_queue) = loading[1]

\* C12 as claimed (a failed load is retried by a click): when the load of a
\* node has failed, so that the node is unloaded, a click on that node calls
\* load_jobs on it again.
C12_ClickRetriesFailedLoad ==
    (tree_pc = "failed" /\ lastClick.node = 1) => lastClick.did = "load"

\* The positions of the log where the set_job of navigation t failed.
FailAt(t) == {k \in 1..Len(log) : log[k].ev = "fail" /\ log[k].tag = t}

\* The panel shown after the step at position k of the log.
PanelAfter(k) == IF k = Len(log) THEN panel ELSE log[k + 1].panel

C14_ClickRetriesFailedFetch ==
    \A k, j \in 1..Len(log) :
        (/\ log[k].ev = "fail" /\ k < j
         /\ Handled(j) /\ log[j].kind = "JobClick"
         /\ log[j].node_name = log[k].node_name)
            => Accepted(j)

\* C15 (optimistic update, same-selection no-op): a JobSelected{name} handled
\* while current_node differs from name assigns current_node = name and only
\* then schedules set_job, whose fetch has not begun when the handler ends;
\* one handled while current_node equals name schedules nothing, swaps no
\* panel and changes nothing.  So a fetch is in flight only for a navigation
\* whose assignment of current_node was made before.
C15_SelectBeforeFetch ==
    /\ [][(Len(log') = Len(log) + 1 /\ log'[Len(log')].kind = "JobClick")
            => LET m == Head(app_queue) IN
               /\ app_pc = "idle" /\ app_pc' = "idle"
               /\ panel' = panel /\ nodes' = nodes /\ tree_pc' = tree_pc
               /\ IF m.node_name # current_node
                  THEN /\ current_node' = m.node_name
                       /\ log'[Len(log')].ev = "on"
                       /\ app_queue' = Append(Tail(app_queue),
                              Msg("set_job", m.node_name, m.url, m.tag))
                  ELSE /\ current_node' = current_node
                       /\ log'[Len(log')].ev = "skip"
                       /\ app_queue' = Tail(app_queue)]_vars
    /\ [](\A k \in 1..Len(log) :
            /\ log[k].ev = "run"
                  => \E i \in 1..(k - 1) :
                        /\ log[i].ev = "on" /\ log[i].tag = log[k].tag
                        /\ log[i].node_name = log[k].node_name
            /\ log[k].ev = "skip"
                  => \A i \in 1..Len(log) :
                        log[i].tag = log[k].tag => i = k)

\* C15 witness: a job's fetch is in flight after its selection was accepted,
\* and a selection of the job that was already selected has been skipped.
C15_Witness ==
    /\ app_pc = "set_job"
    /\ \E k \in 1..Len(log) : log[k].ev = "skip" /\ log[k].kind = "JobClick"

\* A step in which handle_tree_click ran for node n of the tree on screen.
ClickStepOn(n) ==
    /\ inst' = inst /\ tree_pc' = tree_pc
    /\ lastClick'.node = n
    /\ lastClick' # lastClick \/ nodes' # nodes \/ emits' # emits

\* What the claim has a click do to a folder or multibranch node n: the first
\* click loads and expands it, one child per descriptor of its jobs; a later
\* click flips expanded and leaves loaded and the children.
FolderClickEffect(n) ==
    IF ~nodes[n].loaded
    THEN /\ nodes'[n].loaded /\ nodes'[n].expanded
         /\ Len(nodes'[n].children) = Len(nodes[n].jobs)
    ELSE /\ nodes'[n].expanded = ~nodes[n].expanded
         /\ nodes'[n].loaded
         /\ nodes'[n].children = nodes[n].children
         /\ Len(nodes') = Len(nodes)

\* C16 as claimed (folder click sequence): every click on every folder or
\* multibranch node has that effect, so that after k clicks the node is
\* expanded exactly when k is odd.
C16_FolderClickSequence ==
    [][\A n \in 1..Len(nodes) :
          (ClickStepOn(n) /\ nodes[n].type \in {"folder", "multibranch"})
              => FolderClickEffect(n)]_vars

\* C17 (only the root fetches): client.get_jobs has been called once per tree
\* instance, by the load of the root in on_mount; no other node has type
\* root, and every other loaded node has exactly the children its own jobs
\* list describes, in order; a click never calls get_jobs.
C17_OnlyRootFetches ==
    /\ fetches = inst + 1
    /\ \A n \in 2..Len(nodes) :
          /\ nodes[n].type # "root"
          /\ nodes[n].loaded =>
                /\ Len(nodes[n].children) = Len(nodes[n].jobs)
                /\ \A i \in 1..Len(nodes[n].jobs) :
                      /\ nodes[nodes[n].children[i]].url = nodes[n].jobs[i].url
                      /\ nodes[nodes[n].children[i]].label = nodes[n].jobs[i].name

\* C17 witness: in a refreshed tree a folder has been loaded from its own
\* jobs list and then toggled.
C17_Witness ==
    /\ inst > 0 /\ fetches = 2
    /\ lastClick.branch = "toggle"
    /\ nodes[lastClick.node].nloads = 1
    /\ nodes[lastClick.node].children # <<>>
    /\ ~nodes[lastClick.node].expanded

\* C18 (selection clicks do not touch the tree): a handle_tree_click on a node
\* of type job or on the root emits its message, JobClick with the node's name
\* and url or RootClick, and leaves every node of the tree as it was.
C18_SelectionLeavesTree ==
    [][\A n \in 1..Len(nodes) :
          (ClickStepOn(n) /\ (nodes[n].type = "job" \/ n = 1))
              => /\ nodes' = nodes
                 /\ emits' = emits + 1
                 /\ Len(app_queue') = Len(app_queue) + 1
                 /\ LET m == app_queue'[Len(app_queue')] IN
                    IF nodes[n].type = "job"
                    THEN /\ m.kind = "JobClick"
                         /\ m.node_name = nodes[n].name /\ m.url = nodes[n].url
                    ELSE m.kind = "RootClick"]_vars

\* C18 witness: the last click was on a job inside a folder that had been
\* loaded and expanded, and the one before it in the queue was a RootClick.
C18_Witness ==
    /\ lastClick.did = "emit"
    /\ nodes[lastClick.node].type = "job"
    /\ nodes[lastClick.node].parent # 1
    /\ Len(app_queue) >= 2
    /\ app_queue[Len(app_queue)].kind = "JobClick"
    /\ app_queue[Len(app_queue) - 1].kind = "RootClick"

\* C19 (cache transparency): the label render_node returns, from the cache or
\* not, is the label the body of render_tree_label would compute at that
\* moment; and every label the cache holds for a node of the tree on screen is
\* the one the body would compute for the key's arguments now.  A key of a
\* discarded tree is never the key of a node of the new tree.
C19_CacheTransparent ==
    /\ lastRender # NoRender => lastRender.label = lastRender.fresh
    /\ \A e \in cached :
          e.key.self = inst =>
             /\ e.key.node <= Len(nodes)
             /\ e.label = render_tree_label(nodes, e.key.node, e.key.type,
                              e.key.expanded, e.key.is_cursor, e.key.is_hover,
                              e.key.has_focus)
    /\ {e.key : e \in cached} = Range(cache)
    /\ Cardinality(cached) = Len(cache)

\* C19 witness: in a refreshed tree a folder's label was returned from the
\* cache after the folder had been loaded and collapsed again, while the cache
\* also held a label of the discarded tree.
C19_Witness ==
    /\ lastRender # NoRender /\ lastRender.hit
    /\ inst > 0 /\ lastRender.key.self = inst
    /\ lastRender.key.type = "folder"
    /\ nodes[lastRender.key.node].loaded
    /\ ~nodes[lastRender.key.node].expanded
    /\ \E e \in cached : e.key.self # inst

====
